---- MODULE Spec2Model ----
(***************************************************************************)
(* A model of memipnet (src/memipnet.go): the address and protocol         *)
(* resolver parseProtocolIPPort, and the Stack operations Listen,          *)
(* ListenPacket, DialContext and Close running over the loopback network   *)
(* stack they delegate to.                                                 *)
(*                                                                         *)
(* Texts (networks, addresses, hosts, ports) are TLA+ strings, taken apart *)
(* with Len and SubSeq.  An IP address is the sequence of its bytes, as    *)
(* net.IP is; the nil net.IP is the empty sequence.                        *)
(***************************************************************************)
EXTENDS Integers, Sequences, FiniteSets, TLC

VARIABLES
    stopped,        \* the gVisor stack has been closed (s.stack.Close() ran)
    closing,        \* where Stack.Close is: "open", "waiting" or "returned"
    bound,          \* the live local bindings of the gVisor stack
    calls,          \* the public operations in progress, one record per caller
    nbinds,         \* how many bindings have ever been made
    rin,            \* resolver check: the arguments of parseProtocolIPPort
    rout            \* resolver check: what it returned

vars == <<stopped, closing, bound, calls, nbinds, rin, rout>>

----------------------------------------------------------------------------
(* Texts *)

\* The i-th character of s, as a one-character string.
Char(s, i) == SubSeq(s, i, i)

\* s[from:], 0-based as in Go.
From(s, from) == SubSeq(s, from + 1, Len(s))

\* s[:to], 0-based as in Go.
Upto(s, to) == SubSeq(s, 1, to)

\* bytealg.IndexByteString: the 0-based index of the first c in s, or -1.
IndexByte(s, c) ==
    IF \E i \in 1..Len(s) : Char(s, i) = c
    THEN (CHOOSE i \in 1..Len(s) :
            Char(s, i) = c /\ \A j \in 1..(i - 1) : Char(s, j) # c) - 1
    ELSE -1

\* The 0-based index of the last c in s, or -1.
LastIndexByte(s, c) ==
    IF \E i \in 1..Len(s) : Char(s, i) = c
    THEN (CHOOSE i \in 1..Len(s) :
            Char(s, i) = c /\ \A j \in (i + 1)..Len(s) : Char(s, j) # c) - 1
    ELSE -1

Digits == <<"0", "1", "2", "3", "4", "5", "6", "7", "8", "9">>

IsDigit(c) == \E d \in 1..10 : Digits[d] = c

DigitVal(c) == (CHOOSE d \in 1..10 : Digits[d] = c) - 1

----------------------------------------------------------------------------
(* Errors *)

NoErr == [kind |-> "nil", Err |-> "", Addr |-> ""]

\* &net.AddrError{Err: msg, Addr: addr}
AddrError(msg, addr) == [kind |-> "AddrError", Err |-> msg, Addr |-> addr]

\* net.UnknownNetworkError(network)
UnknownNetworkError(network) ==
    [kind |-> "UnknownNetworkError", Err |-> "unknown network", Addr |-> network]

----------------------------------------------------------------------------
(* IP addresses *)

ipv4Loopback == <<127, 0, 0, 1>>

ipv6Loopback == <<0, 0, 0, 0, 0, 0, 0, 0, 0, 0, 0, 0, 0, 0, 0, 1>>

NilIP == <<>>

\* net.IPv4(a, b, c, d): the 16-byte IPv4-mapped form.
IPv4(a, b, c, d) == <<0, 0, 0, 0, 0, 0, 0, 0, 0, 0, 255, 255, a, b, c, d>>

\* net.IP.To4: the 4-byte form of an IPv4 address, nil for anything else.
To4(ip) ==
    IF Len(ip) = 4 THEN ip
    ELSE IF /\ Len(ip) = 16
            /\ \A i \in 1..10 : ip[i] = 0
            /\ ip[11] = 255
            /\ ip[12] = 255
         THEN SubSeq(ip, 13, 16)
         ELSE NilIP

\* net.IP.To16: the 16-byte form of an address, nil if its length is wrong.
To16(ip) ==
    IF Len(ip) = 4 THEN IPv4(ip[1], ip[2], ip[3], ip[4])
    ELSE IF Len(ip) = 16 THEN ip
         ELSE NilIP

\* net.ParseIP on the host texts of this model: an IPv4 literal gives the
\* 16-byte IPv4-mapped form, an IPv6 literal its 16 bytes, any other text nil.
ParseIP(host) ==
    CASE host = "127.0.0.1" -> IPv4(127, 0, 0, 1)
      [] host = "127.0.1.1" -> IPv4(127, 0, 1, 1)
      [] host = "10.1.2.3" -> IPv4(10, 1, 2, 3)
      [] host = "::1" -> ipv6Loopback
      [] host = "::" -> <<0, 0, 0, 0, 0, 0, 0, 0, 0, 0, 0, 0, 0, 0, 0, 0>>
      [] host = "::ffff:127.0.0.1" -> IPv4(127, 0, 0, 1)
      [] host = "fe80::1" -> <<254, 128, 0, 0, 0, 0, 0, 0, 0, 0, 0, 0, 0, 0, 0, 1>>
      [] OTHER -> NilIP

----------------------------------------------------------------------------
(* net.SplitHostPort *)

SplitOk(host, port) == [host |-> host, port |-> port, err |-> NoErr]

SplitErr(hostport, why) == [host |-> "", port |-> "", err |-> AddrError(why, hostport)]

\* The bracketed branch: the first ']' must sit just before the last ':'.
SplitBracketed(hostport, i) ==
    LET end == IndexByte(hostport, "]") IN
    IF end < 0 THEN SplitErr(hostport, "missing ']' in address")
    ELSE IF end + 1 = Len(hostport) THEN SplitErr(hostport, "missing port in address")
    ELSE IF end + 1 # i THEN
        IF Char(hostport, end + 2) = ":"
        THEN SplitErr(hostport, "too many colons in address")
        ELSE SplitErr(hostport, "missing port in address")
    ELSE IF IndexByte(From(hostport, 1), "[") >= 0
        THEN SplitErr(hostport, "unexpected '[' in address")
    ELSE IF IndexByte(From(hostport, end + 1), "]") >= 0
        THEN SplitErr(hostport, "unexpected ']' in address")
    ELSE SplitOk(SubSeq(hostport, 2, end), From(hostport, i + 1))

\* The unbracketed branch: the host is everything before the last ':'.
SplitPlain(hostport, i) ==
    LET host == Upto(hostport, i) IN
    IF IndexByte(host, ":") >= 0 THEN SplitErr(hostport, "too many colons in address")
    ELSE IF IndexByte(hostport, "[") >= 0
        THEN SplitErr(hostport, "unexpected '[' in address")
    ELSE IF IndexByte(hostport, "]") >= 0
        THEN SplitErr(hostport, "unexpected ']' in address")
    ELSE SplitOk(host, From(hostport, i + 1))

SplitHostPort(hostport) ==
    LET i == LastIndexByte(hostport, ":") IN
    IF i < 0 THEN SplitErr(hostport, "missing port in address")
    ELSE IF Char(hostport, 1) = "[" THEN SplitBracketed(hostport, i)
    ELSE SplitPlain(hostport, i)

----------------------------------------------------------------------------
(* strconv.ParseInt(port, 10, 0) *)

MaxPort == 65535

\* The value of a digit string, left to right.  A value above MaxPort is kept
\* as MaxPort + 1: the caller only asks whether it exceeds MaxPort, and
\* ParseInt's own range error for a value beyond int64 has the same outcome.
RECURSIVE DecimalFrom(_, _)
DecimalFrom(s, acc) ==
    IF s = "" THEN acc
    ELSE LET v == acc * 10 + DigitVal(Char(s, 1)) IN
         DecimalFrom(From(s, 1), IF v > MaxPort THEN MaxPort + 1 ELSE v)

\* strconv.ParseUint for base 10: one or more digits, nothing else.
ParseUint(s) ==
    IF s = "" \/ \E i \in 1..Len(s) : ~IsDigit(Char(s, i))
    THEN [ok |-> FALSE, n |-> 0]
    ELSE [ok |-> TRUE, n |-> DecimalFrom(s, 0)]

\* strconv.ParseInt for base 10: an optional sign, then ParseUint.
ParseInt(s) ==
    IF s = "" THEN [ok |-> FALSE, n |-> 0]
    ELSE LET neg == Char(s, 1) = "-"
             rest == IF Char(s, 1) = "+" \/ Char(s, 1) = "-" THEN From(s, 1) ELSE s
             un == ParseUint(rest)
         IN  IF ~un.ok THEN un
             ELSE [ok |-> TRUE, n |-> IF neg THEN 0 - un.n ELSE un.n]

----------------------------------------------------------------------------
(* parseProtocolIPPort *)

Resolved(protocol, ips, port) ==
    [protocol |-> protocol, ips |-> ips, port |-> port, err |-> NoErr]

ResolveErr(err) == [protocol |-> "none", ips |-> <<>>, port |-> 0, err |-> err]

\* parsePort with the upper limit off by one.
parsePortOffByOne(port) ==
    LET portNum == ParseInt(port) IN
    IF ~portNum.ok \/ 0 > portNum.n \/ portNum.n > MaxPort + 1
    THEN [ok |-> FALSE, n |-> 0]
    ELSE [ok |-> TRUE, n |-> portNum.n % (MaxPort + 1)]

\* Lines 151-154: the port text as a number in [0, 65535].
parsePort(port) ==
    LET portNum == ParseInt(port) IN
    IF ~portNum.ok \/ 0 > portNum.n \/ portNum.n > MaxPort
    THEN [ok |-> FALSE, n |-> 0]
    ELSE [ok |-> TRUE, n |-> portNum.n % (MaxPort + 1)]

\* caseV4 with the protocol number of the other family.
caseV4TaggedV6(host, portNum, address) ==
    LET h == IF host = "localhost" THEN "127.0.0.1" ELSE host
        ip == To4(ParseIP(h))
    IN  IF ip = NilIP
        THEN ResolveErr(AddrError("invalid IPv4 address", address))
        ELSE Resolved("ipv6", <<ip>>, portNum)

\* caseV4 keeping the 16-byte form (To16 where To4 is meant).
caseV4Wide(host, portNum, address) ==
    LET h == IF host = "localhost" THEN "127.0.0.1" ELSE host
        ip == To16(ParseIP(h))
    IN  IF ip = NilIP
        THEN ResolveErr(AddrError("invalid IPv4 address", address))
        ELSE Resolved("ipv4", <<ip>>, portNum)

\* case prefix + "4"
caseV4(host, portNum, address) ==
    LET h == IF host = "localhost" THEN "127.0.0.1" ELSE host
        ip == To4(ParseIP(h))
    IN  IF ip = NilIP
        THEN ResolveErr(AddrError("invalid IPv4 address", address))
        ELSE Resolved("ipv4", <<ip>>, portNum)

\* localhostCandidates without the IPv4 loopback.
localhostCandidatesV6Only == <<To16(ipv6Loopback)>>

\* localhostCandidates with the two loopbacks in the other order.
localhostCandidatesSwapped == <<To16(ipv4Loopback), To16(ipv6Loopback)>>

\* case prefix, host "localhost": both loopbacks, ::1 first.
localhostCandidates == <<To16(ipv6Loopback), To16(ipv4Loopback)>>

\* caseV6 refusing every address that has a 4-byte form.
caseV6Strict(host, portNum, address) ==
    LET h == IF host = "localhost" THEN "::1" ELSE host
        ip == To16(ParseIP(h))
    IN  IF ip = NilIP \/ To4(ip) # NilIP
        THEN ResolveErr(AddrError("invalid IP address", address))
        ELSE Resolved("ipv6", <<ip>>, portNum)

\* case prefix + "6", and case prefix falling through with another host.
caseV6(host, portNum, address) ==
    LET h == IF host = "localhost" THEN "::1" ELSE host
        ip == To16(ParseIP(h))
    IN  IF ip = NilIP
        THEN ResolveErr(AddrError("invalid IP address", address))
        ELSE Resolved("ipv6", <<ip>>, portNum)

\* switchNetwork without its default case: an unknown network is taken for
\* prefix + "6".
switchNetworkNoDefault(prefix, network, host, portNum, address) ==
    IF network = prefix \o "4" THEN caseV4(host, portNum, address)
    ELSE IF network = prefix /\ host = "localhost"
        THEN Resolved("ipv6", localhostCandidates, portNum)
    ELSE caseV6(host, portNum, address)

\* switch network
switchNetwork(prefix, network, host, portNum, address) ==
    IF network = prefix \o "4" THEN caseV4(host, portNum, address)
    ELSE IF network = prefix THEN
        IF host = "localhost"
        THEN Resolved("ipv6", localhostCandidates, portNum)
        ELSE caseV6(host, portNum, address)
    ELSE IF network = prefix \o "6" THEN caseV6(host, portNum, address)
    ELSE ResolveErr(UnknownNetworkError(network))

parseProtocolIPPort(prefix, network, address) ==
    LET hp == SplitHostPort(address) IN
    IF hp.err # NoErr THEN ResolveErr(hp.err)
    ELSE LET p == parsePort(hp.port) IN
         IF ~p.ok THEN ResolveErr(AddrError("invalid port", address))
         ELSE switchNetwork(prefix, network, hp.host, p.n, address)

----------------------------------------------------------------------------
(* Arguments the resolver is checked on *)

MaxSmallPort == 120

\* fmt's %d of a port number.
RECURSIVE Itoa(_)
Itoa(n) == IF n < 10 THEN Digits[n + 1] ELSE Itoa(n \div 10) \o Digits[(n % 10) + 1]

\* net.JoinHostPort: a host holding a colon goes in brackets.
JoinHostPort(host, port) ==
    IF IndexByte(host, ":") >= 0
    THEN "[" \o host \o "]:" \o port
    ELSE host \o ":" \o port

Prefixes == {"tcp", "udp"}

KnownNetworks == {"tcp", "tcp4", "tcp6", "udp", "udp4", "udp6"}

UnknownNetworks == {"ip", "tcp5", "TCP", "unix", ""}

Networks == KnownNetworks \cup UnknownNetworks

IPv4Literals == {"127.0.0.1", "127.0.1.1", "10.1.2.3"}

IPv4MappedLiterals == {"::ffff:127.0.0.1"}

IPv6Literals == {"::1", "::", "fe80::1"} \cup IPv4MappedLiterals

NonIPHosts == {"example.com", "1.2.3", "256.0.0.1", "LOCALHOST", ""}

HostTexts == {"localhost"} \cup IPv4Literals \cup IPv6Literals \cup NonIPHosts

Ports == (0..MaxSmallPort) \cup {9001, 9002, 65534, 65535}

SignedPorts == {0, 7, 80, 9001, 65535}

PortTexts ==
    {Itoa(p) : p \in Ports}
        \cup {"+" \o Itoa(p) : p \in SignedPorts}
        \cup {"-" \o Itoa(p) : p \in SignedPorts}
        \cup {"007", "00080", "0065535", "0065536", "-000", "+00"}
        \cup {"65536", "65537", "99999", "100000", "+65536", "18446744073709551616"}
        \cup {"", "+", "-", "++1", "+-1", "x", "80a", "a80", "8 0", " 80", "0x50", "1_0", "http"}

\* Addresses net.SplitHostPort rejects.
MalformedAddresses ==
    {"", "localhost", "127.0.0.1", "[::1]", "::1", "::1:80", "localhost:80:90",
     "[::1]80", "[::1:80", "[::1]:80:90", "[[::1]]:80", "[::1]]:80", "local]host:80",
     "local[host:80"}

ResolverInputs ==
    {[prefix |-> x, network |-> n, host |-> h, port |-> p,
      address |-> JoinHostPort(h, p), joined |-> TRUE] :
        x \in Prefixes, n \in Networks, h \in HostTexts, p \in PortTexts}
    \cup
    {[prefix |-> x, network |-> n, host |-> "", port |-> "",
      address |-> a, joined |-> FALSE] :
        x \in Prefixes, n \in Networks, a \in MalformedAddresses}

NoInput ==
    [prefix |-> "", network |-> "", host |-> "", port |-> "", address |-> "",
     joined |-> FALSE]

NotRun == [protocol |-> "none", ips |-> <<>>, port |-> 0,
           err |-> [kind |-> "not run", Err |-> "", Addr |-> ""]]

----------------------------------------------------------------------------
(* The loopback network stack behind gonet (gVisor), as far as the Stack    *)
(* sees it.  NewStack gives NIC 1 the addresses 127.0.0.1/8 and ::1/128 and *)
(* default routes for both families.  A binding holds one local (transport, *)
(* address, port); an IPv4-mapped IPv6 address is its IPv4 address.  A      *)
(* stream dial connects exactly when a listener is bound to the address and *)
(* port dialled.  Once the stack is closed it has no bindings and every     *)
(* call on it fails.                                                        *)

\* The address a 16- or 4-byte address stands for on the wire.
WireAddr(ip) == IF To4(ip) # NilIP THEN To4(ip) ELSE ip

\* The addresses NewStack assigns: 127.0.0.1/8 and ::1/128.
IsLocal(ip) ==
    \/ Len(ip) = 4 /\ ip[1] = ipv4Loopback[1]
    \/ ip = ipv6Loopback

\* net.IP.String for the addresses of this model.
IPString(ip) ==
    LET w == WireAddr(ip) IN
    IF Len(w) = 4
    THEN Itoa(w[1]) \o "." \o Itoa(w[2]) \o "." \o Itoa(w[3]) \o "." \o Itoa(w[4])
    ELSE IF w = ipv6Loopback THEN "::1" ELSE "ipv6"

\* The error gonet returns for a failed call on (ip, port).
CapErr(why, ip, port) ==
    [kind |-> "gonet", Err |-> why, Addr |-> JoinHostPort(IPString(ip), Itoa(port))]

Taken(transport, ip, port) ==
    \E b \in bound :
        b.transport = transport /\ b.addr = WireAddr(ip) /\ b.port = port

\* Why a bind of (transport, ip, port) fails, "" if it succeeds.
BindFailure(transport, ip, port) ==
    IF stopped THEN "stack closed"
    ELSE IF ~IsLocal(WireAddr(ip)) THEN "bad local address"
    ELSE IF Taken(transport, ip, port) THEN "port is in use"
    ELSE ""

\* Why a stream dial to (ip, port) fails, "" if it connects.
ConnectFailure(ip, port) ==
    IF stopped THEN "stack closed"
    ELSE IF ~Taken("tcp", ip, port) THEN "connection refused"
    ELSE ""

\* Why a datagram dial to (ip, port) fails, "" if it succeeds: there is no
\* handshake, the endpoint only needs the stack.
DatagramFailure(ip, port) == IF stopped THEN "stack closed" ELSE ""

----------------------------------------------------------------------------
(* The Stack's public operations *)

MaxCallers == 2

MaxBinds == 2

Callers == 1..MaxCallers

StackNetworks == {"tcp", "tcp4", "tcp6", "udp", "udp4", "udp6", "ip"}

StackAddresses ==
    {"localhost:9001", "127.0.0.1:9001", "[::1]:9001",
     "127.0.0.1:9002", "[::1]:9002",
     "example.com:9001", "localhost:+x", "localhost"}

NoAddr == [IP |-> NilIP, Port |-> 0 - 1]

\* &net.TCPAddr{IP: ip, Port: int(port)}
TCPAddr(ip, port) == [IP |-> ip, Port |-> port]

\* &net.OpError{Op: op, Net: network, Source: nil, Addr: addr, Err: err}
OpError(op, network, addr, err) == [Op |-> op, Net |-> network, Addr |-> addr, Err |-> err]

\* fmt.Errorf("%s", err)
Errorf(err) == [kind |-> "errorString", Err |-> err.Err, Addr |-> err.Addr]

NoResult == OpError("", "", NoAddr, NoErr)

Idle ==
    [pc |-> "idle", op |-> "", network |-> "", address |-> "", mode |-> "",
     protocol |-> "none", ips |-> <<>>, port |-> 0, i |-> 0, err |-> NoErr,
     result |-> NoResult, ncalls |-> 0, seen |-> {}, late |-> FALSE,
     udpTried |-> FALSE]

\* FailedResolving with an address in the failure, as the loops' failures have.
FailedResolvingWithAddr(op, tag, network, address, err, udpTried) ==
    [Idle EXCEPT !.pc = "failed", !.op = op, !.network = network,
                 !.address = address, !.udpTried = udpTried,
                 !.result = OpError(tag, network, [IP |-> NilIP, Port |-> 0], err)]

\* A call that failed in resolution: lines 104, 128, 206 and 229.
FailedResolving(op, tag, network, address, err, udpTried) ==
    [Idle EXCEPT !.pc = "failed", !.op = op, !.network = network,
                 !.address = address, !.udpTried = udpTried,
                 !.result = OpError(tag, network, NoAddr, err)]

\* A call about to try its first candidate.  seen is history: the bindings
\* that have been open ever since the call began.
Iterating(op, mode, network, address, r, udpTried) ==
    [Idle EXCEPT !.pc = "iterating", !.op = op, !.mode = mode, !.network = network,
                 !.address = address, !.seen = bound, !.udpTried = udpTried,
                 !.protocol = r.protocol, !.ips = r.ips, !.port = r.port, !.i = 1]

\* Listen and ListenPacket up to the loop: resolve in the operation's mode.
ListenEntry(op, prefix, network, address) ==
    LET r == parseProtocolIPPort(prefix, network, address) IN
    IF r.err # NoErr
    THEN FailedResolving(op, "listen", network, address, r.err, FALSE)
    ELSE Iterating(op, prefix, network, address, r, FALSE)

\* DialContext resolving as UDP after any failure of the TCP resolution.
DialEntryAlwaysRetry(network, address) ==
    LET r == parseProtocolIPPort("tcp", network, address)
        u == parseProtocolIPPort("udp", network, address)
    IN  IF r.err = NoErr
        THEN Iterating("DialContext", "tcp", network, address, r, FALSE)
        ELSE IF u.err # NoErr
        THEN FailedResolving("DialContext", "dial", network, address, u.err, TRUE)
        ELSE Iterating("DialContext", "udp", network, address, u, TRUE)

\* DialContext up to its loops: resolve as TCP, and as UDP only if TCP
\* resolution said the network is unknown.
DialEntry(network, address) ==
    LET r == parseProtocolIPPort("tcp", network, address)
        u == parseProtocolIPPort("udp", network, address)
    IN  IF r.err # NoErr /\ r.err.kind # "UnknownNetworkError"
        THEN FailedResolving("DialContext", "dial", network, address, r.err, FALSE)
        ELSE IF r.err = NoErr
        THEN Iterating("DialContext", "tcp", network, address, r, FALSE)
        ELSE IF u.err # NoErr
        THEN FailedResolving("DialContext", "dial", network, address, u.err, TRUE)
        ELSE Iterating("DialContext", "udp", network, address, u, TRUE)

\* The caller is free to call.
Begins(c) == calls[c].pc = "idle"

\* The bindings made so far and those the calls in progress may yet make;
\* the specifications let a binding call begin while this is below MaxBinds.
Binding == nbinds + Cardinality({c \in Callers :
                calls[c].pc \in {"iterating", "calling"}
                    /\ calls[c].op \in {"Listen", "ListenPacket"}})


Listen(c, network, address) ==
    /\ Begins(c)
    /\ calls' = [calls EXCEPT ![c] = ListenEntry("Listen", "tcp", network, address)]
    /\ UNCHANGED <<stopped, closing, bound, nbinds, rin, rout>>

\* ListenPacket resolving in TCP mode, as Listen does.
ListenPacketTcpMode(c, network, address) ==
    /\ Begins(c)
    /\ calls' = [calls EXCEPT ![c] = ListenEntry("ListenPacket", "tcp", network, address)]
    /\ UNCHANGED <<stopped, closing, bound, nbinds, rin, rout>>

ListenPacket(c, network, address) ==
    /\ Begins(c)
    /\ calls' = [calls EXCEPT ![c] = ListenEntry("ListenPacket", "udp", network, address)]
    /\ UNCHANGED <<stopped, closing, bound, nbinds, rin, rout>>

DialContext(c, network, address) ==
    /\ Begins(c)
    /\ calls' = [calls EXCEPT ![c] = DialEntry(network, address)]
    /\ UNCHANGED <<stopped, closing, bound, nbinds, rin, rout>>

\* Dial is DialContext with context.Background().
Dial(c, network, address) == DialContext(c, network, address)

\* Attempt taking the candidates from the end of the list.
AttemptOutOfOrder(c) ==
    /\ calls[c].pc = "iterating"
    /\ calls' = [calls EXCEPT ![c].pc = "calling",
                              ![c].i = Len(calls[c].ips) + 1 - @,
                              ![c].ncalls = @ + 1,
                              ![c].late = @ \/ closing = "returned"]
    /\ UNCHANGED <<stopped, closing, bound, nbinds, rin, rout>>

\* The loop body up to the call: the capability call on candidate i begins.
Attempt(c) ==
    /\ calls[c].pc = "iterating"
    /\ calls' = [calls EXCEPT ![c].pc = "calling",
                              ![c].ncalls = @ + 1,
                              ![c].late = @ \/ closing = "returned"]
    /\ UNCHANGED <<stopped, closing, bound, nbinds, rin, rout>>

\* AfterFailure returning the failure of the first candidate that fails.
AfterFailureGiveUp(k, why) ==
    LET ip == k.ips[k.i]
        err == CapErr(why, ip, k.port)
        tag == IF k.op = "DialContext" THEN "dial" ELSE "listen"
    IN  [k EXCEPT !.pc = "failed", !.err = err,
                  !.result = OpError(tag, k.network, TCPAddr(ip, k.port),
                                     IF k.op = "DialContext" THEN err ELSE Errorf(err))]

\* AfterFailure trying the last candidate once more before giving up.
AfterFailureRetry(k, why) ==
    LET ip == k.ips[k.i]
        err == CapErr(why, ip, k.port)
        tag == IF k.op = "DialContext" THEN "dial" ELSE "listen"
    IN  IF k.i < Len(k.ips)
        THEN [k EXCEPT !.pc = "iterating", !.i = @ + 1, !.err = err]
        ELSE IF k.ncalls = Len(k.ips)
        THEN [k EXCEPT !.pc = "iterating", !.err = err]
        ELSE [k EXCEPT !.pc = "failed", !.err = err,
                       !.result = OpError(tag, k.network, TCPAddr(ip, k.port),
                                          IF k.op = "DialContext" THEN err ELSE Errorf(err))]

\* AfterFailure returning the first candidate and the first error.
AfterFailureFirstError(k, why) ==
    LET ip == k.ips[k.i]
        err == CapErr(why, ip, k.port)
        first == IF k.err = NoErr THEN err ELSE k.err
        tag == IF k.op = "DialContext" THEN "dial" ELSE "listen"
    IN  IF k.i < Len(k.ips)
        THEN [k EXCEPT !.pc = "iterating", !.i = @ + 1, !.err = first]
        ELSE [k EXCEPT !.pc = "failed", !.err = first,
                       !.result = OpError(tag, k.network, TCPAddr(k.ips[1], k.port),
                                          IF k.op = "DialContext" THEN first ELSE Errorf(first))]

\* AfterFailure with every failure tagged "listen", DialContext's too.
AfterFailureListenTag(k, why) ==
    LET ip == k.ips[k.i]
        err == CapErr(why, ip, k.port)
    IN  IF k.i < Len(k.ips)
        THEN [k EXCEPT !.pc = "iterating", !.i = @ + 1, !.err = err]
        ELSE [k EXCEPT !.pc = "failed", !.err = err,
                       !.result = OpError("listen", k.network, TCPAddr(ip, k.port),
                                          IF k.op = "DialContext" THEN err ELSE Errorf(err))]

\* The call in flight failed: try the next candidate, or leave the loop and
\* return the failure naming the last candidate.
AfterFailure(k, why) ==
    LET ip == k.ips[k.i]
        err == CapErr(why, ip, k.port)
        tag == IF k.op = "DialContext" THEN "dial" ELSE "listen"
    IN  IF k.i < Len(k.ips)
        THEN [k EXCEPT !.pc = "iterating", !.i = @ + 1, !.err = err]
        ELSE [k EXCEPT !.pc = "failed", !.err = err,
                       !.result = OpError(tag, k.network, TCPAddr(ip, k.port),
                                          IF k.op = "DialContext" THEN err ELSE Errorf(err))]

\* gonet.ListenTCP (Listen) or gonet.DialUDP with a local address
\* (ListenPacket) returns.
BindReturns(c) ==
    LET k == calls[c]
        ip == k.ips[k.i]
        why == BindFailure(k.mode, ip, k.port)
    IN  /\ k.pc = "calling"
        /\ k.op \in {"Listen", "ListenPacket"}
        /\ IF why = ""
           THEN /\ bound' = bound \cup
                        {[transport |-> k.mode, addr |-> WireAddr(ip), port |-> k.port,
                          network |-> k.network, address |-> k.address]}
                /\ nbinds' = nbinds + 1
                /\ calls' = [calls EXCEPT ![c].pc = "succeeded", ![c].err = NoErr]
           ELSE /\ calls' = [calls EXCEPT ![c] = AfterFailure(k, why)]
                /\ UNCHANGED <<bound, nbinds>>
        /\ UNCHANGED <<stopped, closing, rin, rout>>

\* gonet.DialContextTCP or gonet.DialUDP with a remote address returns.
ConnectReturns(c) ==
    LET k == calls[c]
        ip == k.ips[k.i]
        why == IF k.mode = "tcp" THEN ConnectFailure(ip, k.port)
                                 ELSE DatagramFailure(ip, k.port)
    IN  /\ k.pc = "calling"
        /\ k.op = "DialContext"
        /\ calls' = [calls EXCEPT ![c] =
                        IF why = ""
                        THEN [k EXCEPT !.pc = "succeeded", !.err = NoErr]
                        ELSE AfterFailure(k, why)]
        /\ UNCHANGED <<stopped, closing, bound, nbinds, rin, rout>>

\* The caller has its result; it may call again.
Returned(c) ==
    /\ calls[c].pc \in {"succeeded", "failed"}
    /\ calls' = [calls EXCEPT ![c] = Idle]
    /\ UNCHANGED <<stopped, closing, bound, nbinds, rin, rout>>

\* The owner of a listener or packet endpoint closes it.
CloseListener(b) ==
    /\ b \in bound
    /\ bound' = bound \ {b}
    /\ calls' = [c \in Callers |-> [calls[c] EXCEPT !.seen = @ \ {b}]]
    /\ UNCHANGED <<stopped, closing, nbinds, rin, rout>>

\* Stack.Close without line 94: the gVisor stack is left running.
CloseStackNoStop ==
    /\ closing = "open"
    /\ closing' = "waiting"
    /\ UNCHANGED <<stopped, bound, calls, nbinds, rin, rout>>

\* Stack.Close, line 94: s.stack.Close().
CloseStack ==
    /\ closing = "open"
    /\ closing' = "waiting"
    /\ stopped' = TRUE
    /\ bound' = {}
    /\ calls' = [c \in Callers |-> [calls[c] EXCEPT !.seen = {}]]
    /\ UNCHANGED <<nbinds, rin, rout>>

\* Stack.Close, lines 95-96: s.stack.Wait() is over and Close returns.
CloseReturns ==
    /\ closing = "waiting"
    /\ closing' = "returned"
    /\ UNCHANGED <<stopped, bound, calls, nbinds, rin, rout>>

Init ==
    /\ stopped = FALSE
    /\ closing = "open"
    /\ bound = {}
    /\ calls = [c \in Callers |-> Idle]
    /\ nbinds = 0
    /\ rin = NoInput
    /\ rout = NotRun

\* No operation is in progress.
Quiet == \A c \in Callers : calls[c].pc = "idle"

FirstCaller == CHOOSE c \in Callers : \A d \in Callers : c <= d

\* One caller uses the Stack, one operation at a time, with any network and
\* address; listeners are closed and the Stack is closed at any moment.
Next ==
    \/ \E n \in StackNetworks, a \in StackAddresses : Quiet /\ Binding < MaxBinds /\ Listen(FirstCaller, n, a)
    \/ \E n \in StackNetworks, a \in StackAddresses : Quiet /\ Binding < MaxBinds /\ ListenPacket(FirstCaller, n, a)
    \/ \E n \in StackNetworks, a \in StackAddresses : Quiet /\ DialContext(FirstCaller, n, a)
    \/ \E c \in Callers : Attempt(c)
    \/ \E c \in Callers : BindReturns(c)
    \/ \E c \in Callers : ConnectReturns(c)
    \/ \E c \in Callers : Returned(c)
    \/ \E b \in bound : CloseListener(b)
    \/ CloseStack
    \/ CloseReturns

Spec == Init /\ [][Next]_vars

\* The address concurrent callers use: the dual-stack resolution.
ConcurrentAddresses == {"localhost:9001"}

\* Several callers use the Stack at once, each step of each operation
\* interleaved with the others' and with Close: stream listeners, packet
\* endpoints and stream dials on one address.
NextConcurrent ==
    \/ \E c \in Callers, a \in ConcurrentAddresses :
            Binding < MaxBinds /\ Listen(c, "tcp", a)
    \/ \E c \in Callers, a \in ConcurrentAddresses :
            Binding < MaxBinds /\ ListenPacket(c, "udp", a)
    \/ \E c \in Callers, a \in ConcurrentAddresses : DialContext(c, "tcp", a)
    \/ \E c \in Callers : Attempt(c)
    \/ \E c \in Callers : BindReturns(c)
    \/ \E c \in Callers : ConnectReturns(c)
    \/ \E c \in Callers : Returned(c)
    \/ \E b \in bound : CloseListener(b)
    \/ CloseStack
    \/ CloseReturns

SpecConcurrent == Init /\ [][NextConcurrent]_vars

FairNetworks == {"tcp", "tcp4", "udp", "ip"}

FairAddresses == {"localhost:9001", "127.0.0.1:9001", "example.com:9001"}

\* One caller, one operation at a time, as in Next, on fewer networks and
\* addresses: those that give two candidates, one candidate and a failed
\* resolution.
NextSerial ==
    \/ \E n \in FairNetworks, a \in FairAddresses :
            Quiet /\ Binding < MaxBinds /\ Listen(FirstCaller, n, a)
    \/ \E n \in FairNetworks, a \in FairAddresses :
            Quiet /\ Binding < MaxBinds /\ ListenPacket(FirstCaller, n, a)
    \/ \E n \in FairNetworks, a \in FairAddresses :
            Quiet /\ DialContext(FirstCaller, n, a)
    \/ \E c \in Callers : Attempt(c)
    \/ \E c \in Callers : BindReturns(c)
    \/ \E c \in Callers : ConnectReturns(c)
    \/ \E c \in Callers : Returned(c)
    \/ \E b \in bound : CloseListener(b)
    \/ CloseStack
    \/ CloseReturns

\* Every operation runs on and every call on the network stack returns: a
\* loop that can take its next step takes it (the code between two calls has
\* nothing to wait for), and a call in flight returns.
Progress ==
    \A c \in Callers :
        /\ WF_vars(Attempt(c))
        /\ WF_vars(BindReturns(c))
        /\ WF_vars(ConnectReturns(c))

SpecFair == Init /\ [][NextSerial]_vars /\ Progress

\* Several callers make stream listeners on one dual-stack address, again
\* and again, each step interleaved with the others', with listener closes
\* and with Close.  A call may begin until more than MaxBinds bindings have
\* been made, so that calls are made with both loopbacks taken.
NextListeners ==
    \/ \E c \in Callers, a \in ConcurrentAddresses :
            nbinds <= MaxBinds /\ Listen(c, "tcp", a)
    \/ \E c \in Callers : Attempt(c)
    \/ \E c \in Callers : BindReturns(c)
    \/ \E c \in Callers : Returned(c)
    \/ \E b \in bound : CloseListener(b)
    \/ CloseStack
    \/ CloseReturns

SpecListeners == Init /\ [][NextListeners]_vars

----------------------------------------------------------------------------
(* The resolver on its own: one call of parseProtocolIPPort *)

InitResolve ==
    /\ stopped = FALSE
    /\ closing = "open"
    /\ bound = {}
    /\ calls = [c \in Callers |-> Idle]
    /\ nbinds = 0
    /\ rin \in ResolverInputs
    /\ rout = NotRun

Resolve ==
    /\ rout = NotRun
    /\ rout' = parseProtocolIPPort(rin.prefix, rin.network, rin.address)
    /\ UNCHANGED <<stopped, closing, bound, calls, nbinds, rin>>

NextResolve == Resolve

SpecResolve == InitResolve /\ [][NextResolve]_vars

----------------------------------------------------------------------------
(* Properties of the resolver, checked under SpecResolve *)

\* What the claims say of a port text, read off the text itself.
AllDigits(t) == t # "" /\ \A i \in 1..Len(t) : IsDigit(Char(t, i))

RECURSIVE StripZeros(_)
StripZeros(t) == IF t # "" /\ Char(t, 1) = "0" THEN StripZeros(From(t, 1)) ELSE t

\* a <= b for digit strings of one length.
DigitsLeq(a, b) ==
    \/ a = b
    \/ \E i \in 1..Len(a) :
        /\ Upto(a, i - 1) = Upto(b, i - 1)
        /\ DigitVal(Char(a, i)) < DigitVal(Char(b, i))

\* The digit string t denotes a number of at most 65535.
AtMost65535(t) ==
    LET z == StripZeros(t) IN Len(z) < 5 \/ (Len(z) = 5 /\ DigitsLeq(z, "65535"))

HasSign(t) == t # "" /\ Char(t, 1) \in {"+", "-"}

Unsigned(t) == IF HasSign(t) THEN From(t, 1) ELSE t

\* An optional sign and digits, denoting a number in [0, 65535].
SignedPortText(t) ==
    /\ AllDigits(Unsigned(t))
    /\ IF t # "" /\ Char(t, 1) = "-"
       THEN StripZeros(Unsigned(t)) = ""
       ELSE AtMost65535(Unsigned(t))

\* The decimal text of the number a valid port text denotes.
Canonical(t) == IF StripZeros(Unsigned(t)) = "" THEN "0" ELSE StripZeros(Unsigned(t))

Ran == rout # NotRun

InvalidPort == rout.err = AddrError("invalid port", rin.address)

\* The resolver got past the split and the port.
PastPort == Ran /\ rin.joined /\ SignedPortText(rin.port)

InV4Case == rin.network = rin.prefix \o "4"

InV6Case ==
    \/ rin.network = rin.prefix \o "6"
    \/ rin.network = rin.prefix /\ rin.host # "localhost"

\* C4: for every port p and prefix X in {tcp, udp}, resolving "localhost:p" in
\* mode X succeeds with port exactly p; network X4 gives (IPv4, [127.0.0.1]),
\* X6 gives (IPv6, [::1]), and bare X gives (IPv6, [::1, ::ffff:127.0.0.1]),
\* ::1 first.
C4_LocalhostResolution ==
    \A p \in Ports :
        (Ran /\ rin.joined /\ rin.host = "localhost" /\ rin.port = Itoa(p)) =>
            /\ rin.network = rin.prefix \o "4" =>
                rout = Resolved("ipv4", << <<127, 0, 0, 1>> >>, p)
            /\ rin.network = rin.prefix \o "6" =>
                rout = Resolved("ipv6", <<ipv6Loopback>>, p)
            /\ rin.network = rin.prefix =>
                rout = Resolved("ipv6",
                                <<ipv6Loopback,
                                  <<0, 0, 0, 0, 0, 0, 0, 0, 0, 0, 255, 255, 127, 0, 0, 1>> >>,
                                p)

C4_Witness ==
    /\ Ran
    /\ rin.joined /\ rin.host = "localhost" /\ rin.port = "65535"
    /\ rin.network = "udp" /\ rin.prefix = "udp"
    /\ Len(rout.ips) = 2
    /\ rout.port = MaxPort

C6_StrictIPv4AsStated ==
    (PastPort /\ InV4Case) =>
        IF rin.host \in IPv4Literals \cup {"localhost"}
        THEN rout.err = NoErr /\ rout.protocol = "ipv4"
                /\ Len(rout.ips) = 1 /\ Len(rout.ips[1]) = 4
        ELSE rout.err = AddrError("invalid IPv4 address", rin.address)

\* C6 amended: in the prefix+"4" case a dotted IPv4 literal, "localhost" and
\* an IPv4-mapped IPv6 literal ::ffff:a.b.c.d resolve to (IPv4, [the 4-byte
\* address]); every other host fails with "invalid IPv4 address".
C6_IPv4OrMapped ==
    (PastPort /\ InV4Case) =>
        IF rin.host \in IPv4Literals \cup IPv4MappedLiterals \cup {"localhost"}
        THEN /\ rout.err = NoErr
             /\ rout.protocol = "ipv4"
             /\ Len(rout.ips) = 1
             /\ Len(rout.ips[1]) = 4
             /\ rin.host \in {"localhost", "127.0.0.1", "::ffff:127.0.0.1"} =>
                    rout.ips[1] = <<127, 0, 0, 1>>
             /\ rin.host = "10.1.2.3" => rout.ips[1] = <<10, 1, 2, 3>>
        ELSE rout.err = AddrError("invalid IPv4 address", rin.address)

C6_Witness ==
    /\ Ran
    /\ rin.joined /\ rin.network = "tcp4" /\ rin.prefix = "tcp"
    /\ rin.host = "::ffff:127.0.0.1"
    /\ rout.err = NoErr
    /\ rout.ips = << <<127, 0, 0, 1>> >>

\* C7 as stated: a port text that is not all digits (a leading sign included,
\* or empty) or that exceeds 65535 fails with "invalid port" whatever the
\* network and host; only all-digit texts in [0, 65535] pass.
C7_DigitsOnlyAsStated ==
    (Ran /\ rin.joined) =>
        (InvalidPort <=> ~(AllDigits(rin.port) /\ AtMost65535(rin.port)))

\* C7 amended: the port text passes exactly when it is an optional single
\* sign, '+' or '-', followed by one or more digits, and denotes a number in
\* [0, 65535] (so "+80" and "-0" pass); every other text fails with "invalid
\* port" whatever the network and host, and a resolution that succeeds
\* returns the number the text denotes.
C7_OptionalSign ==
    (Ran /\ rin.joined) =>
        /\ InvalidPort <=> ~SignedPortText(rin.port)
        /\ rout.err = NoErr => Itoa(rout.port) = Canonical(rin.port)

C7_Witness ==
    /\ Ran
    /\ rin.joined /\ rin.port = "+80"
    /\ rin.network = "tcp4" /\ rin.prefix = "tcp" /\ rin.host = "localhost"
    /\ rout.err = NoErr
    /\ rout.port = 80

\* C11: every successful resolution, whatever the prefix, network and
\* address, returns one or two candidates, none of them nil, and a family tag
\* that follows the network: IPv4 exactly when the network is prefix+"4", and
\* IPv6 when it is prefix+"6" or the bare prefix.  Two candidates are returned
\* only for the bare prefix.
C11_FamilyTagAndCandidates ==
    (Ran /\ rout.err = NoErr) =>
        /\ Len(rout.ips) \in {1, 2}
        /\ \A i \in 1..Len(rout.ips) : rout.ips[i] # NilIP
        /\ rout.protocol \in {"ipv4", "ipv6"}
        /\ rout.protocol = "ipv4" <=> rin.network = rin.prefix \o "4"
        /\ rin.network \in {rin.prefix, rin.prefix \o "6"} => rout.protocol = "ipv6"
        /\ Len(rout.ips) = 2 => rin.network = rin.prefix

C11_Witness ==
    /\ Ran
    /\ rin.prefix = "udp" /\ rin.network = "udp4" /\ rin.address = "10.1.2.3:80"
    /\ rout.err = NoErr
    /\ rout.protocol = "ipv4"
    /\ Len(rout.ips) = 1

----------------------------------------------------------------------------
(* Properties of the Stack's operations, checked under Spec *)

Done(k) == k.pc \in {"succeeded", "failed"}

StreamDial(k) == k.op = "DialContext" /\ k.mode = "tcp"

\* The call's candidate list holds the address the binding has.
Targets(k, b) == \E i \in 1..Len(k.ips) : WireAddr(k.ips[i]) = b.addr

\* The call is Op(network, address).
Called(k, op, network, address) ==
    k.op = op /\ k.network = network /\ k.address = address

\* The binding was made by Listen(network, address).
ListenedWith(b, network, address) ==
    b.transport = "tcp" /\ b.network = network /\ b.address = address

\* b is the one binding the Stack has ever had, and it has been open ever
\* since the call began.
OnlyListener(k, b) == nbinds = 1 /\ b \in k.seen

StackPortTexts == {"9001", "9002"}

LocalhostListens ==
    {<<"tcp", "localhost">>, <<"tcp4", "localhost">>, <<"tcp6", "localhost">>,
     <<"tcp", "127.0.0.1">>, <<"tcp4", "127.0.0.1">>,
     <<"tcp", "::1">>, <<"tcp6", "::1">>}

\* C1: a stream DialContext succeeds whenever a listener that has been open
\* since the dial began is bound to the dialled port and to an address of the
\* dial's candidate list; and DialContext("tcp", "localhost:P") reaches a
\* listener made with any of (tcp, localhost), (tcp4, localhost),
\* (tcp6, localhost), (tcp, 127.0.0.1), (tcp4, 127.0.0.1), (tcp, [::1]),
\* (tcp6, [::1]), whichever loopback it is bound to.
C1_DialReachesListener ==
    \A c \in Callers :
        LET k == calls[c] IN
        \A b \in k.seen :
            /\ (StreamDial(k) /\ Done(k) /\ b.transport = "tcp"
                    /\ b.port = k.port /\ Targets(k, b))
                => k.pc = "succeeded"
            /\ \A P \in StackPortTexts, l \in LocalhostListens :
                (Done(k) /\ Called(k, "DialContext", "tcp", JoinHostPort("localhost", P))
                    /\ ListenedWith(b, l[1], JoinHostPort(l[2], P)))
                => k.pc = "succeeded"

C1_Witness ==
    \E c \in Callers :
        /\ Called(calls[c], "DialContext", "tcp", "localhost:9001")
        /\ calls[c].pc = "succeeded"
        /\ calls[c].i = 2
        /\ \E b \in calls[c].seen :
            ListenedWith(b, "tcp4", "localhost:9001") /\ b.addr = <<127, 0, 0, 1>>

\* C2 as stated: with Listen("tcp", "localhost:9001") the only listener of a
\* fresh Stack, DialContext("tcp6", "[::1]:9001") succeeds and
\* DialContext("tcp", "127.0.0.1:9001") succeeds too.
C2_DualStackAsStated ==
    \A c \in Callers :
        LET k == calls[c] IN
        \A b \in k.seen :
            (Done(k) /\ OnlyListener(k, b) /\ ListenedWith(b, "tcp", "localhost:9001")
                /\ (\/ Called(k, "DialContext", "tcp6", "[::1]:9001")
                    \/ Called(k, "DialContext", "tcp", "127.0.0.1:9001")))
            => k.pc = "succeeded"

\* C2 amended: with Listen("tcp", "localhost:9001") the only listener of a
\* fresh Stack, the listener is bound to ::1 alone;
\* DialContext("tcp6", "[::1]:9001") and DialContext("tcp", "localhost:9001")
\* succeed, and DialContext("tcp", "127.0.0.1:9001") fails with a "dial"
\* failure: an IPv4 peer does not reach the listener.
C2_ListenerOnIPv6Only ==
    \A c \in Callers :
        LET k == calls[c] IN
        \A b \in k.seen :
            (Done(k) /\ OnlyListener(k, b) /\ ListenedWith(b, "tcp", "localhost:9001")) =>
                /\ b.addr = ipv6Loopback
                /\ Called(k, "DialContext", "tcp6", "[::1]:9001") => k.pc = "succeeded"
                /\ Called(k, "DialContext", "tcp", "localhost:9001") => k.pc = "succeeded"
                /\ Called(k, "DialContext", "tcp", "127.0.0.1:9001") =>
                    /\ k.pc = "failed"
                    /\ k.result.Op = "dial"
                    /\ k.result.Err.Err = "connection refused"

C2_Witness ==
    \E c \in Callers :
        \E b \in calls[c].seen :
            /\ OnlyListener(calls[c], b)
            /\ ListenedWith(b, "tcp", "localhost:9001")
            /\ Called(calls[c], "DialContext", "tcp", "127.0.0.1:9001")
            /\ calls[c].pc = "failed"

\* C3: with Listen("tcp4", "127.0.0.1:9002") the only listener of a fresh
\* Stack, DialContext("tcp6", "[::1]:9002") fails with a "dial" failure and
\* DialContext("tcp4", "127.0.0.1:9002") succeeds.
C3_FamilyIsolation ==
    \A c \in Callers :
        LET k == calls[c] IN
        \A b \in k.seen :
            (Done(k) /\ OnlyListener(k, b) /\ ListenedWith(b, "tcp4", "127.0.0.1:9002")) =>
                /\ Called(k, "DialContext", "tcp6", "[::1]:9002") =>
                    /\ k.pc = "failed"
                    /\ k.result.Op = "dial"
                    /\ k.result.Net = "tcp6"
                    /\ k.result.Addr = TCPAddr(ipv6Loopback, 9002)
                /\ Called(k, "DialContext", "tcp4", "127.0.0.1:9002") => k.pc = "succeeded"

C3_Witness ==
    \E c \in Callers :
        \E b \in calls[c].seen :
            /\ OnlyListener(calls[c], b)
            /\ ListenedWith(b, "tcp4", "127.0.0.1:9002")
            /\ Called(calls[c], "DialContext", "tcp6", "[::1]:9002")
            /\ calls[c].pc = "failed"
            /\ calls[c].ncalls = 1

\* The addresses of the model that split into a host and a valid port.
SplittingAddresses == StackAddresses \ {"localhost:+x", "localhost"}

\* C8: with a network outside {tcp, tcp4, tcp6, udp, udp4, udp6} and an
\* address that splits into a host and a valid port, whatever the host,
\* DialContext fails with a "dial" failure and Listen with a "listen" failure,
\* each caused by "unknown network" carrying that network, with no target
\* address and no call on the network stack.
C8_UnknownNetwork ==
    \A c \in Callers :
        LET k == calls[c] IN
        (k.pc # "idle" /\ k.network \notin KnownNetworks
            /\ k.address \in SplittingAddresses /\ k.op \in {"Listen", "DialContext"}) =>
            /\ k.pc = "failed"
            /\ k.ncalls = 0
            /\ k.result =
                OpError(IF k.op = "Listen" THEN "listen" ELSE "dial", k.network, NoAddr,
                        [kind |-> "UnknownNetworkError", Err |-> "unknown network",
                         Addr |-> k.network])

C8_Witness ==
    \E c \in Callers :
        /\ Called(calls[c], "DialContext", "ip", "example.com:9001")
        /\ calls[c].pc = "failed"
        /\ calls[c].udpTried
        /\ calls[c].result.Err.kind = "UnknownNetworkError"

\* The last character of a network name.
Suffix(network) == IF network = "" THEN "" ELSE Char(network, Len(network))

\* C9 as stated: a listener or packet endpoint made with a network ending in
\* "4" is bound to an IPv4 address, and one made with a network ending in "6"
\* to a genuine IPv6 address, never to an IPv4 or IPv4-mapped one.
C9_NoWrongFamily ==
    \A b \in bound :
        /\ Suffix(b.network) = "4" => Len(b.addr) = 4
        /\ Suffix(b.network) = "6" => Len(b.addr) = 16

TcpNetworks == {"tcp", "tcp4", "tcp6"}

UdpNetworks == {"udp", "udp4", "udp6"}

\* The call's resolution succeeded: it is in, or has been in, its loop.
PastResolving(k) == k.pc \in {"iterating", "calling", "succeeded"} \/ (k.pc = "failed" /\ k.ncalls > 0)

\* The call failed in resolution because its network is unknown to its mode.
UnknownFamily(k, tag) ==
    /\ k.pc = "failed"
    /\ k.ncalls = 0
    /\ k.result = OpError(tag, k.network, NoAddr, UnknownNetworkError(k.network))

\* C12: Listen resolves in TCP mode only: its resolution succeeds only for
\* tcp, tcp4 and tcp6, and a udp, udp4 or udp6 network (with an address that
\* splits into a host and a valid port) fails as an unknown network.
\* ListenPacket resolves in UDP mode only, the other way round.  DialContext
\* resolves all six networks, in TCP mode (a stream connection) exactly for
\* tcp, tcp4, tcp6 and in UDP mode (a datagram connection) exactly for udp,
\* udp4, udp6.  A stream listener is only ever made by a tcp* call and a
\* packet endpoint by a udp* call.
C12_OperationNetworkCompatibility ==
    /\ \A c \in Callers :
        LET k == calls[c] IN
        /\ k.op = "Listen" =>
            /\ PastResolving(k) => k.network \in TcpNetworks /\ k.mode = "tcp"
            /\ (k.network \in UdpNetworks /\ k.address \in SplittingAddresses)
                    => UnknownFamily(k, "listen")
            /\ (k.network \in TcpNetworks /\ k.address = "localhost:9001")
                    => PastResolving(k)
        /\ k.op = "ListenPacket" =>
            /\ PastResolving(k) => k.network \in UdpNetworks /\ k.mode = "udp"
            /\ (k.network \in TcpNetworks /\ k.address \in SplittingAddresses)
                    => UnknownFamily(k, "listen")
            /\ (k.network \in UdpNetworks /\ k.address = "localhost:9001")
                    => PastResolving(k)
        /\ k.op = "DialContext" =>
            /\ PastResolving(k) =>
                /\ k.network \in TcpNetworks \cup UdpNetworks
                /\ k.mode = "tcp" <=> k.network \in TcpNetworks
                /\ k.mode = "udp" <=> k.network \in UdpNetworks
            /\ (k.network \in TcpNetworks \cup UdpNetworks /\ k.address = "localhost:9001")
                    => PastResolving(k)
    /\ \A b \in bound :
        /\ b.transport = "tcp" <=> b.network \in TcpNetworks
        /\ b.transport = "udp" <=> b.network \in UdpNetworks

C12_Witness ==
    \E c \in Callers :
        /\ Called(calls[c], "ListenPacket", "tcp", "localhost:9001")
        /\ UnknownFamily(calls[c], "listen")

\* C13: DialContext resolves in UDP mode if and only if its TCP-mode
\* resolution failed with "unknown network".  Any other TCP-mode failure
\* (malformed address, invalid port, invalid address literal) is returned at
\* once as the "dial" failure, with no UDP resolution and no call on the
\* network stack.  When the TCP-mode resolution succeeds the call stays in TCP
\* mode to its end, even if every stream attempt fails.  When both resolutions
\* fail, the failure returned is the UDP-mode one.
C13_UdpOnlyAfterUnknownNetwork ==
    \A c \in Callers :
        LET k == calls[c]
            t == parseProtocolIPPort("tcp", k.network, k.address)
            u == parseProtocolIPPort("udp", k.network, k.address)
        IN  k.op = "DialContext" =>
            /\ k.udpTried <=> t.err.kind = "UnknownNetworkError"
            /\ k.udpTried <=> (k.address \in SplittingAddresses /\ k.network \notin TcpNetworks)
            /\ t.err.kind = "AddrError" =>
                /\ k.pc = "failed"
                /\ k.ncalls = 0
                /\ k.mode = ""
                /\ k.result = OpError("dial", k.network, NoAddr, t.err)
            /\ t.err = NoErr =>
                /\ PastResolving(k)
                /\ k.mode = "tcp"
                /\ k.pc = "failed" => k.ncalls = Len(t.ips)
            /\ (k.udpTried /\ u.err # NoErr) =>
                /\ k.pc = "failed"
                /\ k.ncalls = 0
                /\ k.result = OpError("dial", k.network, NoAddr, u.err)
            /\ (k.udpTried /\ u.err = NoErr) => PastResolving(k) /\ k.mode = "udp"
            /\ Called(k, "DialContext", "udp4", "example.com:9001") =>
                k.result.Err = AddrError("invalid IPv4 address", "example.com:9001")
            /\ Called(k, "DialContext", "tcp", "localhost") =>
                k.result.Err = AddrError("missing port in address", "localhost")

C13_Witness ==
    \E c \in Callers :
        /\ Called(calls[c], "DialContext", "tcp", "example.com:9001")
        /\ calls[c].pc = "failed"
        /\ ~calls[c].udpTried
        /\ calls[c].result.Err = AddrError("invalid IP address", "example.com:9001")

----------------------------------------------------------------------------
(* Properties of the candidate loop, checked under SpecConcurrent *)

\* The binding a successful Listen or ListenPacket call k makes.
BindingOf(k) ==
    [transport |-> k.mode, addr |-> WireAddr(k.ips[k.i]), port |-> k.port,
     network |-> k.network, address |-> k.address]

\* One step, seen from caller c's call.
InOrder(c) ==
    LET k == calls[c]
        k2 == calls'[c]
    IN  \* a call on the network stack begins only from the loop, on the next
        \* candidate of the list: the n-th call of the operation is on ips[n]
        /\ (k2.ncalls # k.ncalls /\ k2.pc # "idle") =>
            /\ k.pc = "iterating" /\ k2.pc = "calling"
            /\ k2.ncalls = k.ncalls + 1
            /\ k2.i = k2.ncalls
            /\ k2.i \in 1..Len(k2.ips)
            /\ k2.ips = k.ips
        \* the next candidate comes up only when the call in flight has
        \* returned a failure
        /\ (k2.i # k.i /\ k.pc # "idle" /\ k2.pc # "idle") =>
            /\ k.pc = "calling" /\ k2.pc = "iterating"
            /\ k2.i = k.i + 1
            /\ k2.err # NoErr
            /\ k2.ncalls = k.ncalls
        \* the operation succeeds when the call in flight does, on the
        \* candidate that call was made on
        /\ (k2.pc = "succeeded" /\ k.pc # "succeeded") =>
            /\ k.pc = "calling"
            /\ k2.i = k.i /\ k2.ncalls = k.ncalls
            /\ k.op \in {"Listen", "ListenPacket"} =>
                    BindingOf(k) \notin bound /\ bound' = bound \cup {BindingOf(k)}
        \* after the success nothing more is attempted
        /\ k.pc = "succeeded" => (k2 = Idle \/ k2 = [k EXCEPT !.seen = k2.seen])

\* C14: within one Listen, ListenPacket or DialContext call the candidates
\* are attempted one at a time in list order: the n-th call on the network
\* stack is on the n-th candidate, it begins only after the call before it has
\* returned a failure, the operation returns the result of the first call
\* that succeeds, and it attempts nothing after that success; so the call has
\* at most one call on the network stack in flight.
C14_OneAtATimeInOrder == [][\A c \in Callers : InOrder(c)]_vars

C14_Witness ==
    \E c \in Callers :
        /\ calls[c].op = "Listen"
        /\ calls[c].pc = "succeeded"
        /\ calls[c].ncalls = 2
        /\ calls[c].err = NoErr
        /\ BindingOf(calls[c]) \in bound
        /\ BindingOf(calls[c]).addr = ipv4Loopback

----------------------------------------------------------------------------
(* Properties of the failures returned, checked under Spec *)

StackHosts == {"localhost", "127.0.0.1", "::1", "example.com"}

\* Why the call in flight of k fails if it returns now, "" if it succeeds.
FailureNow(k) ==
    LET ip == k.ips[k.i] IN
    IF k.op \in {"Listen", "ListenPacket"} THEN BindFailure(k.mode, ip, k.port)
    ELSE IF k.mode = "tcp" THEN ConnectFailure(ip, k.port)
    ELSE DatagramFailure(ip, k.port)

\* One step in which caller c's call runs out of candidates.
LastErrorReturned(c) ==
    LET k == calls[c]
        k2 == calls'[c]
        last == k.ips[Len(k.ips)]
    IN  (k.pc = "calling" /\ k2.pc = "failed") =>
        \* every candidate has been attempted, and the last attempt failed
        /\ k.i = Len(k.ips) /\ k.ncalls = Len(k.ips)
        /\ FailureNow(k) # ""
        \* the failure names the last candidate and the requested port
        /\ k2.result.Op = (IF k.op = "DialContext" THEN "dial" ELSE "listen")
        /\ k2.result.Net = k.network
        /\ k2.result.Addr = TCPAddr(last, k.port)
        /\ \E h \in StackHosts : k.address = JoinHostPort(h, Itoa(k.port))
        \* and carries the error of the last attempt
        /\ k2.result.Err.Err = FailureNow(k)
        /\ k2.result.Err.Addr = JoinHostPort(IPString(last), Itoa(k.port))
        /\ k.op = "DialContext" => k2.result.Err = CapErr(FailureNow(k), last, k.port)
        \* the error of an earlier attempt is not in it
        /\ Len(k.ips) = 2 =>
            /\ k.err.Addr = JoinHostPort(IPString(k.ips[1]), Itoa(k.port))
            /\ k2.result.Err.Addr # k.err.Addr
            /\ k2.result.Addr.IP # k.ips[1]
        \* bare network and localhost: the IPv4-mapped 127.0.0.1 attempt
        /\ (k.network \in Prefixes /\ k.address = JoinHostPort("localhost", Itoa(k.port))) =>
            /\ Len(k.ips) = 2
            /\ k2.result.Addr.IP = <<0, 0, 0, 0, 0, 0, 0, 0, 0, 0, 255, 255, 127, 0, 0, 1>>
            /\ k2.result.Err.Addr = JoinHostPort("127.0.0.1", Itoa(k.port))

\* C15: when every candidate attempt of a Listen, ListenPacket or DialContext
\* call has failed, the failure returned carries the error of the last
\* attempt, not that of an earlier one, and names the last candidate of the
\* list with the requested port.  For a bare network and "localhost" that is
\* the error and the address of the attempt on the IPv4-mapped 127.0.0.1.
C15_LastErrorLastCandidate == [][\A c \in Callers : LastErrorReturned(c)]_vars

C15_Witness ==
    \E c \in Callers :
        /\ Called(calls[c], "DialContext", "tcp", "localhost:9001")
        /\ calls[c].pc = "failed"
        /\ calls[c].ncalls = 2
        /\ calls[c].result.Addr = TCPAddr(To16(ipv4Loopback), 9001)
        /\ calls[c].result.Err = CapErr("stack closed", ipv4Loopback, 9001)
        /\ ~calls[c].late

\* The networks an operation resolves.
NetworksOf(op) ==
    IF op = "Listen" THEN TcpNetworks
    ELSE IF op = "ListenPacket" THEN UdpNetworks
    ELSE TcpNetworks \cup UdpNetworks

\* The addresses of the model whose host the network's case accepts.
HostAccepted(network, address) ==
    /\ address \in SplittingAddresses
    /\ address # "example.com:9001"
    /\ Suffix(network) = "4" => address \notin {"[::1]:9001", "[::1]:9002"}

\* One step in which caller c's call begins, or fails.
ResolutionFailure(c) ==
    LET k == calls[c]
        k2 == calls'[c]
    IN  \* the call fails in resolution exactly on a malformed address, an
        \* invalid port, an invalid literal or an unknown network
        /\ (k.pc = "idle" /\ k2.pc # "idle") =>
            /\ k2.pc \in {"failed", "iterating"}
            /\ k2.pc = "iterating" <=>
                    (k2.network \in NetworksOf(k2.op) /\ HostAccepted(k2.network, k2.address))
        \* and then without a call on the network stack, without touching the
        \* bindings, and with a failure that has no address
        /\ (k.pc = "idle" /\ k2.pc = "failed") =>
            /\ k2.ncalls = 0
            /\ k2.ips = <<>>
            /\ bound' = bound /\ nbinds' = nbinds /\ stopped' = stopped
            /\ k2.result.Op = (IF k2.op = "DialContext" THEN "dial" ELSE "listen")
            /\ k2.result.Net = k2.network
            /\ k2.result.Addr = NoAddr
            /\ k2.result.Err.Err \in
                    {"missing port in address", "invalid port", "invalid IP address",
                     "invalid IPv4 address", "unknown network"}
        \* a failure has an address exactly when it comes out of the loop
        /\ (k2.pc = "failed" /\ k.pc # "failed") =>
            /\ k.pc \in {"idle", "calling"}
            /\ k2.result.Addr # NoAddr <=> k.pc = "calling"
            /\ k2.result.Addr # NoAddr <=> k2.ncalls > 0

\* C16: when resolution fails in Listen, ListenPacket or DialContext
\* (malformed address, invalid port, invalid address literal, unknown
\* network), the call makes no call on the network stack, leaves the bindings
\* as they are, and returns a failure tagged "listen" (Listen, ListenPacket)
\* or "dial" (DialContext) with the network as given and no address; a
\* failure has an address exactly when it arose in the candidate loop.
C16_ResolutionFailureFrame == [][\A c \in Callers : ResolutionFailure(c)]_vars

C16_Witness ==
    \E c \in Callers :
        /\ Called(calls[c], "ListenPacket", "udp", "localhost")
        /\ calls[c].result =
                OpError("listen", "udp", NoAddr, AddrError("missing port in address", "localhost"))
        /\ calls[c].ncalls = 0
        /\ bound # {}

----------------------------------------------------------------------------
(* The life of a call, checked under SpecFair *)

\* Resolving is the step out of "idle"; the loop is "iterating" and
\* "calling"; the terminal states are "succeeded" and "failed".
InLoop(k) == k.pc \in {"iterating", "calling"}

\* One step, seen from caller c's call.
Lifecycle(c) ==
    LET k == calls[c]
        k2 == calls'[c]
    IN  /\ k.pc = "idle" => k2.pc \in {"idle", "iterating", "failed"}
        /\ k.pc = "iterating" => k2.pc \in {"iterating", "calling"}
        /\ k.pc = "calling" => k2.pc \in {"calling", "iterating", "succeeded", "failed"}
        \* a terminal state is left only for the caller's next call, and no
        \* call on the network stack is made in it
        /\ Done(k) => (k2 = Idle \/ k2 = [k EXCEPT !.seen = k2.seen])
        \* success comes out of the loop, with a handle that is live
        /\ (k2.pc = "succeeded" /\ k.pc # "succeeded") =>
            /\ k.pc = "calling"
            /\ ~stopped /\ ~stopped'
            /\ k.op \in {"Listen", "ListenPacket"} => BindingOf(k) \in bound'
            /\ StreamDial(k) =>
                    \E b \in bound' : b.transport = "tcp" /\ b.port = k.port
                                        /\ b.addr = WireAddr(k.ips[k.i])

\* C17: every Listen, ListenPacket and DialContext call goes from resolving
\* to the candidate loop or to failure, and from the loop to success or
\* failure.  Provided each call on the network stack returns, a call in its
\* loop reaches a terminal state; it makes at most two calls on the network
\* stack; it succeeds only out of the loop, with a live handle; and once
\* terminated it changes no more and makes no further call.
C17_TerminatesWithinTwoCalls ==
    /\ [](\A c \in Callers :
            /\ calls[c].pc \in {"idle", "iterating", "calling", "succeeded", "failed"}
            /\ calls[c].ncalls <= 2
            /\ calls[c].ncalls <= Len(calls[c].ips))
    /\ [][\A c \in Callers : Lifecycle(c)]_vars
    /\ \A c \in Callers : InLoop(calls[c]) ~> Done(calls[c])

C17_Witness ==
    \E c \in Callers :
        /\ Called(calls[c], "DialContext", "tcp", "localhost:9001")
        /\ calls[c].pc = "succeeded"
        /\ calls[c].ncalls = 2
        /\ \E b \in bound : ListenedWith(b, "tcp4", "127.0.0.1:9001")

----------------------------------------------------------------------------
(* Listeners on "localhost", checked under SpecListeners *)

\* The Stack has not been closed and no listener has been closed: every
\* binding ever made is still there.
NothingClosed == closing = "open" /\ Cardinality(bound) = nbinds

V6Taken == Taken("tcp", ipv6Loopback, 9001)

V4Taken == Taken("tcp", ipv4Loopback, 9001)

\* One step, seen from caller c's Listen("tcp", "localhost:9001").
OneBindingPerListen(c) ==
    LET k == calls[c]
        k2 == calls'[c]
    IN  Called(k, "Listen", "tcp", "localhost:9001") =>
        \* a successful call adds exactly one binding
        /\ (k2.pc = "succeeded" /\ k.pc # "succeeded") =>
            /\ bound' = bound \cup {BindingOf(k)}
            /\ Cardinality(bound') = Cardinality(bound) + 1
            /\ nbinds' = nbinds + 1
        \* a failing one adds none
        /\ (k2.pc = "failed" /\ k.pc # "failed") => bound' = bound /\ nbinds' = nbinds
        \* with ::1 taken, the call on 127.0.0.1 binds it if it is free
        /\ (k.pc = "calling" /\ k.i = 2 /\ k2.pc # "calling" /\ ~stopped) =>
            /\ k2.pc = "succeeded" <=> ~V4Taken
            /\ k2.pc = "succeeded" => BindingOf(k).addr = ipv4Loopback

\* C18: Listen("tcp", "localhost:P") on an open Stack fails only after
\* finding both ::1:P and 127.0.0.1:P in use; with ::1:P taken it binds
\* 127.0.0.1:P.  So on a fresh Stack with nothing closed, in every
\* interleaving of the calls, no such call fails before two of them have
\* succeeded, one bound to ::1 and the other to 127.0.0.1; each successful
\* call adds exactly one binding; and a call made with both taken fails.
C18_LocalhostListenTwice ==
    /\ [](\A c \in Callers :
            LET k == calls[c] IN
            Called(k, "Listen", "tcp", "localhost:9001") =>
                /\ (k.pc = "failed" /\ closing = "open") =>
                    /\ k.ncalls = 2
                    /\ k.result.Err.Err = "port is in use"
                    /\ k.result.Op = "listen"
                /\ (k.pc = "failed" /\ NothingClosed) =>
                    /\ V6Taken /\ V4Taken
                    /\ nbinds = 2
                /\ (k.pc = "succeeded" /\ NothingClosed) =>
                    /\ BindingOf(k) \in bound
                    /\ k.i = 1 => BindingOf(k).addr = ipv6Loopback
                    /\ k.i = 2 => BindingOf(k).addr = ipv4Loopback /\ V6Taken)
    /\ [](NothingClosed => nbinds <= 2)
    /\ [][\A c \in Callers : OneBindingPerListen(c)]_vars

C18_Witness ==
    \E c \in Callers :
        /\ Called(calls[c], "Listen", "tcp", "localhost:9001")
        /\ calls[c].pc = "failed"
        /\ calls[c].ncalls = 2
        /\ NothingClosed
        /\ bound = {[transport |-> "tcp", addr |-> ipv6Loopback, port |-> 9001,
                      network |-> "tcp", address |-> "localhost:9001"],
                     [transport |-> "tcp", addr |-> ipv4Loopback, port |-> 9001,
                      network |-> "tcp", address |-> "localhost:9001"]}

====
